---- MODULE Spec2Model ----
(***************************************************************************)
(* Model of the active-message store of Sir-Kothay:                        *)
(* BroadcastMessage.save (server/broadcast/models.py) running in           *)
(* concurrent request workers against one transactional message table.     *)
(*                                                                         *)
(* The table holds committed rows only.  A worker inside                   *)
(* transaction.atomic() buffers its writes (deact, and the row of its      *)
(* handle once persisted) and holds row locks on them until it commits or  *)
(* rolls back.  The UPDATE of lines 16-18 is one SQL statement; under READ *)
(* COMMITTED isolation (the default of the PostgreSQL backend) it selects  *)
(* its rows when it starts (BeginAtomic) and, once no selected row is      *)
(* locked by another transaction, re-checks each selected row against its  *)
(* latest committed version and locks and writes the ones that still match *)
(* (LockAndDeactivate).  When nothing commits in between, the two steps    *)
(* are the one-step UPDATE of a backend that reads the latest rows.        *)
(***************************************************************************)
EXTENDS Integers, FiniteSets, Sequences, TLC

\* ---- bounds ----
NumUsers == 2
NumWorkers == 2
MaxMsgs == 2
NumTexts == 2

Users == 1..NumUsers
Workers == 1..NumWorkers
Ids == 1..MaxMsgs
Texts == 1..NumTexts

\* a caller who is not logged in
Anonymous == 0

\* the callers of requests
Callers == Users \cup {Anonymous}

\* ---- the message table ----
\* user = None: an instance with no owner
NoUser == 0

\* a primary key with no row
NoRow == [user |-> 0, message |-> 0, active |-> FALSE]

Rows == [user : Users, message : Texts, active : BOOLEAN]

\* an in-memory BroadcastMessage instance; id = 0 is pk None (not yet inserted)
NoHandle == [id |-> 0, user |-> 0, message |-> 0, active |-> FALSE]

Handles == [id : 0..MaxMsgs, user : Users \cup {NoUser}, message : Texts, active : BOOLEAN]

VARIABLES
    db,       \* committed table: Ids -> Rows \cup {NoRow}
    nextId,   \* next value of the primary-key sequence
    pc,       \* position of each worker
    handle,   \* the model instance each worker holds (self)
    targets,  \* rows the running UPDATE statement selected when it started
    deact,    \* rows locked and written active = FALSE by the worker's open transaction
    raced,    \* TRUE once two activating saves of one user have overlapped
    users,    \* the users that exist
    details,  \* the users that have a UserDetails record
    qr,       \* the QRCode records of each user, in order of creation
    qpc,      \* position of each worker in a QR-code request
    qwho,     \* the caller of the QR-code request each worker serves
    qheld,    \* the QRCode record each worker's request holds, 0 for none
    files     \* the image files in the media directory of each user, by image name

\* the message store and its workers
messageVars == <<db, nextId, pc, handle, targets, deact, raced>>

\* the users, their profiles and QR codes, and the QR-code requests
accountVars == <<users, details, qr, qpc, qwho, qheld, files>>

vars == <<db, nextId, pc, handle, targets, deact, raced, users, details, qr, qpc, qwho,
          qheld, files>>

\* a QRCode record: image = 0 is an empty image field, and an image is named
\* by the worker whose request saved it
QRRecords == [image : 0..NumWorkers]

\* the lists of QRCode records a user can have: each request creates at most one
QRLists == UNION {[1..n -> QRRecords] : n \in 0..NumWorkers}

Exists(d, m) == d[m] # NoRow

\* faulty filters: owner alone, active flag alone, no row at all
MatchesOwnerOnly(row, u) == row # NoRow /\ row.user = u
MatchesActiveOnly(row, u) == row # NoRow /\ row.active
MatchesNothing(row, u) == FALSE

\* filter(user=self.user, active=True)
Matches(row, u) == row # NoRow /\ row.user = u /\ row.active

\* a faulty selection that stops at the first matching row
SelectedFirst(d, u) ==
    {m \in Ids : Matches(d[m], u) /\ \A n \in Ids : Matches(d[n], u) => m <= n}

\* the rows of table d the filter selects for user u
Selected(d, u) == {m \in Ids : Matches(d[m], u)}

\* ids of the messages of user u that are active in table d
ActiveOf(d, u) == {m \in Ids : d[m] # NoRow /\ d[m].user = u /\ d[m].active}

\* ids of the messages user u owns in table d
OwnedBy(d, u) == {m \in Ids : d[m] # NoRow /\ d[m].user = u}

\* the row a handle writes
RowOf(h) == [user |-> h.user, message |-> h.message, active |-> h.active]

\* a worker is inside transaction.atomic()
InTxn(w) == pc[w] \in {"updating", "locked", "persisted"}

\* faulty locks that outlive the commit: the saved row stays locked
LocksOfKept(w) == deact[w] \cup (IF pc[w] \in {"persisted", "saved"} THEN {handle[w].id} ELSE {})

\* row locks worker w holds: the rows its UPDATE wrote and the row it saved
LocksOf(w) == deact[w] \cup (IF pc[w] = "persisted" THEN {handle[w].id} ELSE {})

\* a faulty lock that covers the whole table instead of the selected rows
LockedByOtherTable(m, w) == \E v \in Workers : v # w /\ LocksOf(v) # {}

\* row m is locked by the open transaction of a worker other than w
LockedByOther(m, w) == \E v \in Workers : v # w /\ m \in LocksOf(v)

\* `if self.active:`
TakesActiveBranch(h) == h.active

\* every user exists and has a profile, nobody has a QR code, no QR-code
\* request is being served
InitAccounts ==
    /\ users = Users
    /\ details = Users
    /\ qr = [u \in Users |-> <<>>]
    /\ qpc = [w \in Workers |-> "idle"]
    /\ qwho = [w \in Workers |-> Anonymous]
    /\ qheld = [w \in Workers |-> 0]
    /\ files = [u \in Users |-> {}]

Init ==
    /\ InitAccounts
    /\ db = [m \in Ids |-> NoRow]
    /\ nextId = 1
    /\ pc = [w \in Workers |-> "idle"]
    /\ handle = [w \in Workers |-> NoHandle]
    /\ targets = [w \in Workers |-> {}]
    /\ deact = [w \in Workers |-> {}]
    /\ raced = FALSE

AtRest(w) == pc[w] \in {"idle", "saved", "deleted", "failed"}

\* a faulty inactive save that also deactivates the user's active messages
WriteRowAndDeactivate(d, h) ==
    [m \in Ids |-> IF m = h.id THEN RowOf(h)
                   ELSE IF Matches(d[m], h.user) THEN [d[m] EXCEPT !.active = FALSE]
                   ELSE d[m]]

\* a faulty save that writes the text of an existing row and not its flag
WriteRowTextOnly(d, h) ==
    IF Exists(d, h.id) THEN [d EXCEPT ![h.id].message = h.message]
    ELSE [d EXCEPT ![h.id] = RowOf(h)]

\* the table after super().save() of handle h outside a transaction
WriteRow(d, h) == [d EXCEPT ![h.id] = RowOf(h)]

\* a faulty owner column that accepts no owner (null=True)
HasOwnerOrNone(h) == TRUE

\* the owner column is not nullable: user = models.ForeignKey(...)
HasOwner(h) == h.user # NoUser

\* the foreign key of the owner column: the owner is a stored user
OwnerExists(h) == h.user \in users

\* the INSERT of instance h violates a constraint: the statement raises, nothing
\* is stored; whether the primary-key sequence has advanced depends on the backend
InsertRejected(w, h) ==
    /\ handle' = [handle EXCEPT ![w] = h]
    /\ nextId' \in {nextId, IF nextId <= MaxMsgs THEN nextId + 1 ELSE nextId}
    /\ pc' = [pc EXCEPT ![w] = "failed"]
    /\ UNCHANGED <<db, targets, deact, raced, accountVars>>

\* super().save() of instance h in autocommit: an INSERT that draws the next
\* primary key or an UPDATE that needs the row lock
SaveRow(w, h) ==
    /\ IF h.id = 0
       THEN /\ nextId <= MaxMsgs
            /\ handle' = [handle EXCEPT ![w] = [h EXCEPT !.id = nextId]]
            /\ nextId' = nextId + 1
       ELSE /\ ~LockedByOther(h.id, w)
            /\ handle' = [handle EXCEPT ![w] = h]
            /\ UNCHANGED nextId
    /\ db' = WriteRow(db, handle'[w])
    /\ pc' = [pc EXCEPT ![w] = "saved"]
    /\ UNCHANGED <<targets, deact, raced, accountVars>>

\* a faulty inactive save that first locks the user's active messages
SaveInactiveLocking(w, h) ==
    /\ \A m \in Selected(db, h.user) : ~LockedByOther(m, w)
    /\ IF h.id = 0
       THEN /\ nextId <= MaxMsgs
            /\ handle' = [handle EXCEPT ![w] = [h EXCEPT !.id = nextId]]
            /\ nextId' = nextId + 1
       ELSE /\ ~LockedByOther(h.id, w)
            /\ handle' = [handle EXCEPT ![w] = h]
            /\ UNCHANGED nextId
    /\ db' = WriteRow(db, handle'[w])
    /\ pc' = [pc EXCEPT ![w] = "saved"]
    /\ UNCHANGED <<targets, deact, raced, accountVars>>

\* save() of instance h with self.active false: super().save() alone
SaveInactive(w, h) ==
    IF HasOwner(h) /\ OwnerExists(h) THEN SaveRow(w, h) ELSE InsertRejected(w, h)

\* save() of instance h with self.active true: transaction.atomic() is entered
\* and the UPDATE statement starts, selecting its rows
BeginAtomic(w, h) ==
    /\ handle' = [handle EXCEPT ![w] = h]
    /\ targets' = [targets EXCEPT ![w] = Selected(db, h.user)]
    /\ raced' = (raced \/ \E v \in Workers :
                    v # w /\ InTxn(v) /\ handle[v].user = h.user)
    /\ pc' = [pc EXCEPT ![w] = "updating"]
    /\ UNCHANGED <<db, nextId, deact, accountVars>>

\* BroadcastMessage.save called by worker w on instance h
SaveCall(w, h) ==
    IF TakesActiveBranch(h) THEN BeginAtomic(w, h) ELSE SaveInactive(w, h)

\* a new message is constructed and saved: BroadcastMessage.objects.create(...)
Add(w) ==
    /\ AtRest(w)
    /\ \E u \in Users, x \in Texts, a \in BOOLEAN :
          SaveCall(w, [id |-> 0, user |-> u, message |-> x, active |-> a])

\* an existing message is fetched into an instance
Load(w) ==
    /\ AtRest(w)
    /\ \E m \in Ids :
          /\ Exists(db, m)
          /\ handle' = [handle EXCEPT ![w] =
                [id |-> m, user |-> db[m].user, message |-> db[m].message,
                 active |-> db[m].active]]
    /\ pc' = [pc EXCEPT ![w] = "ready"]
    /\ UNCHANGED <<db, nextId, targets, deact, raced, accountVars>>

\* the fetched instance gets a new text and is saved
Update(w) ==
    /\ pc[w] = "ready"
    /\ \E x \in Texts : SaveCall(w, [handle[w] EXCEPT !.message = x])

\* the fetched instance gets its active flag flipped and is saved
Toggle(w) ==
    /\ pc[w] = "ready"
    /\ SaveCall(w, [handle[w] EXCEPT !.active = ~handle[w].active])

\* the UPDATE gets its row locks and writes active = FALSE
LockAndDeactivate(w) ==
    /\ pc[w] = "updating"
    /\ HasOwner(handle[w])
    /\ \A m \in targets[w] : ~LockedByOther(m, w)
    /\ deact' = [deact EXCEPT ![w] = targets[w] \cap Selected(db, handle[w].user)]
    /\ targets' = [targets EXCEPT ![w] = {}]
    /\ pc' = [pc EXCEPT ![w] = "locked"]
    /\ UNCHANGED <<db, nextId, handle, raced, accountVars>>

\* super().save() inside the transaction
Persist(w) ==
    /\ pc[w] = "locked"
    /\ IF handle[w].id = 0
       THEN /\ nextId <= MaxMsgs
            /\ handle' = [handle EXCEPT ![w].id = nextId]
            /\ nextId' = nextId + 1
       ELSE /\ ~LockedByOther(handle[w].id, w)
            /\ UNCHANGED <<handle, nextId>>
    /\ pc' = [pc EXCEPT ![w] = "persisted"]
    /\ UNCHANGED <<db, targets, deact, raced, accountVars>>

\* a faulty UPDATE that also writes the saved text to the rows it deactivates
CommittedOverwriting(d, w) ==
    [m \in Ids |-> IF m = handle[w].id THEN RowOf(handle[w])
                   ELSE IF m \in deact[w] /\ Exists(d, m)
                        THEN [d[m] EXCEPT !.active = FALSE, !.message = handle[w].message]
                   ELSE d[m]]

\* a faulty commit order: the row of the handle first, then the deactivations
CommittedRowFirst(d, w) ==
    [m \in Ids |-> IF m \in deact[w] /\ Exists(d, m) THEN [d[m] EXCEPT !.active = FALSE]
                   ELSE IF m = handle[w].id THEN RowOf(handle[w])
                   ELSE d[m]]

\* the table after the transaction of worker w commits: its deactivations,
\* then the row of its handle
Committed(d, w) ==
    [m \in Ids |-> IF m = handle[w].id THEN RowOf(handle[w])
                   ELSE IF m \in deact[w] /\ Exists(d, m) THEN [d[m] EXCEPT !.active = FALSE]
                   ELSE d[m]]

\* leaving transaction.atomic() normally
Commit(w) ==
    /\ pc[w] = "persisted"
    /\ OwnerExists(handle[w])
    /\ db' = Committed(db, w)
    /\ deact' = [deact EXCEPT ![w] = {}]
    /\ pc' = [pc EXCEPT ![w] = "saved"]
    /\ UNCHANGED <<nextId, handle, targets, raced, accountVars>>

\* a faulty rollback that leaves the deactivation in the table
RolledBackPartially(d, w) ==
    [m \in Ids |-> IF m \in deact[w] /\ Exists(d, m) THEN [d[m] EXCEPT !.active = FALSE]
                   ELSE d[m]]

\* the table after the transaction of worker w is rolled back
RolledBack(d, w) == d

\* a faulty failure path that saves the instance outside the transaction
FailThenSave(w) ==
    /\ InTxn(w)
    /\ db' = IF handle[w].id # 0 THEN WriteRow(db, handle[w]) ELSE db
    /\ deact' = [deact EXCEPT ![w] = {}]
    /\ targets' = [targets EXCEPT ![w] = {}]
    /\ pc' = [pc EXCEPT ![w] = "failed"]
    /\ UNCHANGED <<nextId, handle, raced, accountVars>>

\* a statement raises inside transaction.atomic(): rollback, the error propagates
Fail(w) ==
    /\ InTxn(w)
    /\ db' = RolledBack(db, w)
    /\ deact' = [deact EXCEPT ![w] = {}]
    /\ targets' = [targets EXCEPT ![w] = {}]
    /\ pc' = [pc EXCEPT ![w] = "failed"]
    /\ UNCHANGED <<nextId, handle, raced, accountVars>>

\* a faulty delete that makes another message of the owner active
DeletePromoting(w) ==
    /\ pc[w] = "ready"
    /\ ~LockedByOther(handle[w].id, w)
    /\ db' = [m \in Ids |-> IF m = handle[w].id THEN NoRow
                             ELSE IF db[m] # NoRow /\ db[m].user = handle[w].user
                                  THEN [db[m] EXCEPT !.active = TRUE]
                             ELSE db[m]]
    /\ pc' = [pc EXCEPT ![w] = "deleted"]
    /\ UNCHANGED <<nextId, handle, targets, deact, raced, accountVars>>

\* delete(message): DELETE of the row of the fetched instance
Delete(w) ==
    /\ pc[w] = "ready"
    /\ ~LockedByOther(handle[w].id, w)
    /\ db' = [db EXCEPT ![handle[w].id] = NoRow]
    /\ pc' = [pc EXCEPT ![w] = "deleted"]
    /\ UNCHANGED <<nextId, handle, targets, deact, raced, accountVars>>

Next ==
    \E w \in Workers :
        \/ Add(w)
        \/ Load(w)
        \/ Update(w)
        \/ Toggle(w)
        \/ LockAndDeactivate(w)
        \/ Persist(w)
        \/ Commit(w)
        \/ Fail(w)
        \/ Delete(w)

Spec == Init /\ [][Next]_vars

\* ---- N concurrent activating creates, one per worker ----

\* one save(active=true) call for a new message
AddActive(w) ==
    /\ pc[w] = "idle"
    /\ \E u \in Users, x \in Texts :
          SaveCall(w, [id |-> 0, user |-> u, message |-> x, active |-> TRUE])

NextAdd ==
    \E w \in Workers :
        \/ AddActive(w)
        \/ LockAndDeactivate(w)
        \/ Persist(w)
        \/ Commit(w)

SpecAdd == Init /\ [][NextAdd]_vars

TypeOK ==
    /\ db \in [Ids -> Rows \cup {NoRow}]
    /\ nextId \in 1..(MaxMsgs + 1)
    /\ pc \in [Workers -> {"idle", "ready", "updating", "locked", "persisted",
                           "saved", "deleted", "failed", "login", "missing", "denied"}]
    /\ handle \in [Workers -> Handles \cup {NoHandle}]
    /\ targets \in [Workers -> SUBSET Ids]
    /\ deact \in [Workers -> SUBSET Ids]
    /\ raced \in BOOLEAN
    /\ users \in SUBSET Users
    /\ details \in SUBSET Users
    /\ qr \in [Users -> QRLists]
    /\ qpc \in [Workers -> {"idle", "login", "notfound", "found", "already", "checked",
                            "inserting", "created", "imaged", "generated", "error",
                            "norecord", "nofile", "served"}]
    /\ qwho \in [Workers -> Callers]
    /\ qheld \in [Workers -> 0..NumWorkers]
    /\ files \in [Users -> SUBSET (1..NumWorkers)]

\* ---- properties ----

\* worker w takes a step
Steps(w) == <<pc[w], handle[w], targets[w], deact[w]>> # <<pc'[w], handle'[w], targets'[w], deact'[w]>>

\* the transaction of worker w commits
Commits(w) == pc[w] = "persisted" /\ pc'[w] = "saved"

\* C1: in every committed state each user owns at most one message with
\* active = true, whatever the interleaving of saves, toggles and deletes.
C1_AtMostOneActive ==
    \A u \in Users : Cardinality(ActiveOf(db, u)) <= 1

\* C2: once the concurrent save(active=true) calls for new messages of one
\* user have all completed, exactly one message of the user is active and it
\* is one of the submitted messages.
C2_OneSubmittedActive ==
    \A u \in Users :
        LET S == {w \in Workers : pc[w] # "idle" /\ handle[w].user = u}
        IN  (S # {} /\ \A w \in S : pc[w] = "saved")
                => /\ Cardinality(ActiveOf(db, u)) = 1
                   /\ ActiveOf(db, u) \subseteq {handle[w].id : w \in S}

\* C3: of two concurrent save(active=true) calls of one user the one that
\* commits last leaves its message active and the message of the earlier
\* committer inactive.
C3_LastCommitWins ==
    [][\A w, v \in Workers :
          (/\ Commits(w)
           /\ v # w
           /\ pc[v] = "saved"
           /\ handle[v].user = handle[w].user)
          => /\ db'[handle[w].id].active
             /\ ~db'[handle[v].id].active]_vars

\* C4: as long as the activating saves of a user have never overlapped, each
\* user has at most one active message after every call.
C4_SerialSavesOneActive ==
    ~raced => \A u \in Users : Cardinality(ActiveOf(db, u)) <= 1

\* two non-overlapping activating saves of one user have returned: the later
\* message is active, the earlier one has been deactivated
C4_Witness ==
    /\ ~raced
    /\ \E w, v \in Workers :
          /\ w # v
          /\ pc[w] = "saved" /\ pc[v] = "saved"
          /\ handle[w].active /\ handle[v].active
          /\ handle[w].user = handle[v].user
          /\ handle[w].id # handle[v].id
          /\ db[handle[w].id].active
          /\ Exists(db, handle[v].id) /\ ~db[handle[v].id].active

\* C5: when a save of a message with active = true returns, the saved message
\* is the one and only active message of its user.
C5_SavedIsTheOnlyActive ==
    [][\A w \in Workers :
          Commits(w) => ActiveOf(db', handle[w].user) = {handle[w].id}]_vars

\* C6: a save with active = false changes no row but the saved one; a message
\* of the same user that was active stays active.
C6_InactiveSaveTouchesOneRow ==
    [][\A w \in Workers :
          (Steps(w) /\ pc[w] # "persisted" /\ pc'[w] = "saved")
          => \A m \in Ids : m # handle'[w].id => db'[m] = db[m]]_vars

\* an inactive save has returned and another message of the user is active
C6_Witness ==
    \E w \in Workers :
        /\ pc[w] = "saved"
        /\ ~handle[w].active
        /\ \E m \in ActiveOf(db, handle[w].user) : m # handle[w].id

\* C7: no step of an activating save for one user locks or changes a message
\* owned by another user.
C7_OtherUsersUntouched ==
    [][\A w \in Workers :
          (Steps(w) /\ (pc[w] = "persisted" \/ pc'[w] \in {"updating", "locked", "persisted"}))
          => \A m \in Ids :
                (Exists(db, m) /\ db[m].user # handle'[w].user)
                => (db'[m] = db[m] /\ m \notin targets'[w] /\ m \notin deact'[w])]_vars

\* an activating save has returned while another user holds an active message
C7_Witness ==
    \E w \in Workers :
        /\ pc[w] = "saved"
        /\ handle[w].active
        /\ db[handle[w].id].active
        /\ \E u \in Users : u # handle[w].user /\ ActiveOf(db, u) # {}

\* C8: an activating save that fails is reported and has changed nothing in
\* the committed table: no step of the transaction but its commit writes the
\* table, and the rollback drops its writes and locks.
C8_FailedSaveChangesNothing ==
    [][\A w \in Workers :
          (Steps(w) /\ (pc'[w] \in {"updating", "locked", "persisted"} \/ pc'[w] = "failed"))
          => /\ db' = db
             /\ (pc'[w] = "failed" => deact'[w] = {})]_vars

\* an activating save failed after its persist step: the message it was to
\* deactivate is still active and the saved message is not in the table
C8_Witness ==
    \E w \in Workers :
        /\ ~raced
        /\ pc[w] = "failed"
        /\ handle[w].id # 0
        /\ ~Exists(db, handle[w].id)
        /\ ActiveOf(db, handle[w].user) # {}

\* C9: two activating saves of one user are never both between their lock
\* step and their commit.
C9_SequencesDoNotInterleave ==
    \A w, v \in Workers :
        (w # v /\ pc[w] \in {"locked", "persisted"} /\ pc[v] \in {"locked", "persisted"})
        => handle[w].user # handle[v].user

\* C10 as stated: the lock and deactivation step covers every existing message
\* the saving user owns.
C10_LockCoversAllOwned ==
    [][\A w \in Workers :
          (pc[w] = "updating" /\ pc'[w] = "locked")
          => deact'[w] = OwnedBy(db, handle[w].user)]_vars

\* C10 amended: the UPDATE selects the messages of the saving user that are
\* active when it starts, and its lock and deactivation step covers exactly
\* the selected ones that are still active; an inactive message of the user
\* is neither locked nor written.
C10_LockCoversActiveOwned ==
    [][\A w \in Workers :
          /\ (Steps(w) /\ pc'[w] = "updating")
                => targets'[w] = ActiveOf(db, handle'[w].user)
          /\ (pc[w] = "updating" /\ pc'[w] = "locked")
                => deact'[w] = targets[w] \cap ActiveOf(db, handle[w].user)]_vars

\* an activating save holds its locks while an inactive message of the same
\* user is not among them
C10_Witness ==
    \E w \in Workers :
        /\ pc[w] = "locked"
        /\ deact[w] # {}
        /\ \E m \in OwnedBy(db, handle[w].user) : ~db[m].active /\ m \notin deact[w]

\* C11: a reader of the committed table never sees an activating save partly
\* applied: whatever a save's transaction changes appears in one step, with the
\* rows it deactivated inactive and the saved message written, and never with
\* two active messages of the saving user
C11_NoPartialCommitSeen ==
    [][\A w \in Workers :
          (InTxn(w) /\ Steps(w) /\ db' # db)
          => /\ Commits(w)
             /\ db'[handle[w].id] = RowOf(handle[w])
             /\ \A m \in deact[w] \ {handle[w].id} : ~db'[m].active
             /\ Cardinality(ActiveOf(db', handle[w].user)) <= 1]_vars

\* the next statement of the open transaction of worker w
TxnStep(w) == LockAndDeactivate(w) \/ Persist(w) \/ Commit(w)

\* the primary-key sequence of the model is used up for the INSERT of worker w
OutOfIds(w) == pc[w] = "locked" /\ handle[w].id = 0 /\ nextId > MaxMsgs

\* C12: activating saves of different users never block each other: while every
\* row lock held by another worker belongs to a save of another user, the open
\* transaction of an activating save can take its next statement, up to commit
C12_OtherUsersNeverBlock ==
    \A w \in Workers :
        (/\ InTxn(w)
         /\ ~OutOfIds(w)
         /\ \A v \in Workers \ {w} : LocksOf(v) # {} => handle[v].user # handle[w].user)
        => ENABLED TxnStep(w)

\* an activating save of one user has locked, deactivated and written while a
\* save of another user holds its lock and has not committed
C12_Witness ==
    \E w, v \in Workers :
        /\ handle[w].user # handle[v].user
        /\ pc[v] \in {"locked", "persisted"}
        /\ deact[v] # {}
        /\ pc[w] = "persisted"
        /\ deact[w] # {}

\* C13: saving an already-active message again changes nothing: when the
\* message is stored as the instance has it and is its user's only active
\* message (the state the first save leaves), the second save commits a table
\* equal to the one before it
C13_ResaveIsIdempotent ==
    [][\A w \in Workers :
          (/\ Commits(w)
           /\ db[handle[w].id] = RowOf(handle[w])
           /\ ActiveOf(db, handle[w].user) = {handle[w].id})
          => db' = db]_vars

\* a second save of the user's only active message has locked and written that
\* message, next to an inactive message of the user, and is about to commit
C13_Witness ==
    \E w \in Workers :
        /\ pc[w] = "persisted"
        /\ handle[w].active
        /\ db[handle[w].id] = RowOf(handle[w])
        /\ ActiveOf(db, handle[w].user) = {handle[w].id}
        /\ deact[w] = {handle[w].id}
        /\ OwnedBy(db, handle[w].user) # {handle[w].id}

\* ---- one request at a time, starting on any stored table ----

\* the workers start with nothing in memory on a table that earlier requests
\* left in the database
InitStored ==
    /\ InitAccounts
    /\ nextId \in 1..(MaxMsgs + 1)
    /\ db \in [Ids -> Rows \cup {NoRow}]
    /\ \A m \in Ids : m >= nextId => db[m] = NoRow
    /\ raced \in BOOLEAN
    /\ (\E u \in Users : Cardinality(ActiveOf(db, u)) >= 2) => raced
    /\ pc = [w \in Workers |-> "idle"]
    /\ handle = [w \in Workers |-> NoHandle]
    /\ targets = [w \in Workers |-> {}]
    /\ deact = [w \in Workers |-> {}]

\* no other worker is inside a transaction
Alone(w) == \A v \in Workers \ {w} : ~InTxn(v)

NextSerial ==
    \E w \in Workers :
        \/ Alone(w) /\ Add(w)
        \/ Alone(w) /\ Load(w)
        \/ Alone(w) /\ Update(w)
        \/ Alone(w) /\ Toggle(w)
        \/ Alone(w) /\ LockAndDeactivate(w)
        \/ Alone(w) /\ Persist(w)
        \/ Alone(w) /\ Commit(w)
        \/ Alone(w) /\ Fail(w)
        \/ Alone(w) /\ Delete(w)

SpecSerial == InitStored /\ [][NextSerial]_vars

\* C14: from a table in which a user has two or more active messages, one
\* activating save for that user, run without another save beside it, commits a
\* table in which the saved message is the user's only active message
C14_SaveRepairsTwoActive ==
    [][\A w \in Workers :
          (Commits(w) /\ Cardinality(ActiveOf(db, handle[w].user)) >= 2)
          => ActiveOf(db', handle[w].user) = {handle[w].id}]_vars

\* a save has locked and deactivated two active messages of its user, has
\* written its own message and is about to commit
C14_Witness ==
    \E w \in Workers :
        /\ pc[w] = "persisted"
        /\ Cardinality(deact[w]) >= 2
        /\ deact[w] = ActiveOf(db, handle[w].user)

\* ---- the read side ----

\* the explicit "none" result of the lookup
None == 0

\* a faulty lookup that ignores the owner
activeMessageForAnyOwner(d, u) ==
    LET S == {m \in Ids : d[m] # NoRow /\ d[m].active}
    IN  IF S = {} THEN None ELSE CHOOSE m \in S : \A n \in S : m <= n

\* activeMessageFor(owner) on the committed table d: the first message of the
\* owner with active = true, or none
activeMessageFor(d, u) ==
    LET S == ActiveOf(d, u)
    IN  IF S = {} THEN None ELSE CHOOSE m \in S : \A n \in S : m <= n

\* C15: on every committed table the lookup returns a stored message of the
\* asked user with active = true, and returns none exactly when no stored
\* message of that user is active
C15_LookupReturnsOwnActive ==
    \A u \in Users :
        LET r == activeMessageFor(db, u)
        IN  /\ r = None <=> ~\E m \in Ids : db[m] # NoRow /\ db[m].user = u /\ db[m].active
            /\ r # None => (db[r] # NoRow /\ db[r].user = u /\ db[r].active)

\* the lookup answers none for a user who owns only an inactive message while
\* another user has an active one, and answers that user with their message
C15_Witness ==
    \E u, o \in Users :
        /\ u # o
        /\ OwnedBy(db, u) # {}
        /\ activeMessageFor(db, u) = None
        /\ activeMessageFor(db, o) # None
        /\ db[activeMessageFor(db, o)].user = o

\* worker w deletes the message it fetched
Deletes(w) == pc[w] = "ready" /\ pc'[w] = "deleted"

\* C16: deleting a message changes no other message, so none becomes active,
\* and when the deleted message was its user's active message the user is left
\* with no active message and the lookup answers none
C16_DeleteActiveLeavesNone ==
    [][\A w \in Workers :
          Deletes(w)
          => /\ \A m \in Ids : m # handle[w].id => db'[m] = db[m]
             /\ ActiveOf(db, handle[w].user) = {handle[w].id}
                => /\ ActiveOf(db', handle[w].user) = {}
                   /\ activeMessageFor(db', handle[w].user) = None]_vars

\* a user's active message was deleted; the user still owns a message, it is
\* inactive and the lookup answers none
C16_Witness ==
    \E w \in Workers :
        /\ pc[w] = "deleted"
        /\ handle[w].active
        /\ ~Exists(db, handle[w].id)
        /\ OwnedBy(db, handle[w].user) # {}
        /\ activeMessageFor(db, handle[w].user) = None

\* worker w saves the message it fetched with active = false
SavesInactive(w) == pc[w] = "ready" /\ pc'[w] = "saved"

\* C17: saving the user's active message with active = false leaves the user
\* with no active message: every message of the user is inactive afterwards and
\* the lookup answers none
C17_DeactivatingLeavesNone ==
    [][\A w \in Workers :
          (SavesInactive(w) /\ ActiveOf(db, handle'[w].user) = {handle'[w].id})
          => /\ \A m \in OwnedBy(db', handle'[w].user) : ~db'[m].active
             /\ \A m \in Ids : m # handle'[w].id => db'[m] = db[m]
             /\ activeMessageFor(db', handle'[w].user) = None]_vars

\* a message another worker fetched while it was active has been saved with
\* active = false; its user owns a second message and has no active message
C17_Witness ==
    \E w, v \in Workers :
        /\ pc[w] = "saved"
        /\ ~handle[w].active
        /\ db[handle[w].id] = RowOf(handle[w])
        /\ pc[v] = "ready"
        /\ handle[v].id = handle[w].id
        /\ handle[v].active
        /\ OwnedBy(db, handle[w].user) # {handle[w].id}
        /\ activeMessageFor(db, handle[w].user) = None

\* ---- the schedule of the database and of the workers ----

\* the INSERT of worker w raises because the primary-key sequence is used up
InsertFails(w) == OutOfIds(w) /\ Fail(w)

\* a statement that waits for a row lock gets it once the lock is free often
\* enough (the lock queue), a transaction whose statements are done commits,
\* and an INSERT that cannot draw a key raises
Fairness ==
    \A w \in Workers :
        /\ SF_vars(LockAndDeactivate(w))
        /\ SF_vars(Persist(w))
        /\ WF_vars(Commit(w))
        /\ WF_vars(InsertFails(w))

\* each worker serves one request, starting on any stored table
NextOnce ==
    \E w \in Workers :
        \/ pc[w] = "idle" /\ Add(w)
        \/ pc[w] = "idle" /\ Load(w)
        \/ Update(w)
        \/ Toggle(w)
        \/ LockAndDeactivate(w)
        \/ Persist(w)
        \/ Commit(w)
        \/ Fail(w)
        \/ Delete(w)

SpecOnce == InitStored /\ [][NextOnce]_vars /\ Fairness

\* the UPDATE of worker w waits for a row lock another transaction holds
WaitsForLock(w) == pc[w] = "updating" /\ \E m \in targets[w] : LockedByOther(m, w)

\* save() of worker w has returned: committed, or failed and rolled back
Returned(w) == pc[w] \in {"saved", "failed"}

CancelledWaiting(w) == WaitsForLock(w) /\ pc'[w] = "failed"

\* C19: an activating save that is cancelled or times out while it waits for
\* the lock rolls back: the committed table is as before, so no message was
\* deactivated and the saved message was not written, and the save holds no lock
C19_CancelledWaitChangesNothing ==
    [][\A w \in Workers :
          CancelledWaiting(w)
          => /\ db' = db
             /\ deact'[w] = {}
             /\ targets'[w] = {}
             /\ \A v \in Workers \ {w} : deact'[v] = deact[v]]_vars

\* a save that was to activate a stored inactive message has failed; the
\* message is still inactive and another save of the user still holds the lock
\* on the user's active message
C19_Witness ==
    \E w, v \in Workers :
        /\ w # v
        /\ pc[w] = "failed"
        /\ handle[w].active
        /\ handle[w].id # 0
        /\ Exists(db, handle[w].id)
        /\ ~db[handle[w].id].active
        /\ pc[v] \in {"locked", "persisted"}
        /\ handle[v].user = handle[w].user
        /\ deact[v] \cap ActiveOf(db, handle[w].user) # {}

\* worker w saves the message it fetched with active = false
SaveFetchedInactive(w) == SaveInactive(w, [handle[w] EXCEPT !.active = FALSE])

\* worker w saves a new message of user u with active = false
SaveNewInactive(w, u) ==
    SaveInactive(w, [id |-> 0, user |-> u, message |-> 1, active |-> FALSE])

\* C20: a save with active = false never waits: whenever a worker has fetched a
\* message it can save it with active = false at once, whatever row another
\* worker's activating save has locked
C20_InactiveSaveNeverWaits ==
    \A w \in Workers : pc[w] = "ready" => ENABLED SaveFetchedInactive(w)

\* C20, amended: a save with active = false takes no lock of its own and waits
\* only for the row it writes: saving a fetched message waits exactly while
\* another transaction holds the lock on that row, and saving a new message
\* never waits
C20_InactiveSaveWaitsOnlyForItsRow ==
    \A w \in Workers :
        /\ pc[w] = "ready"
           => (ENABLED SaveFetchedInactive(w) <=> ~LockedByOther(handle[w].id, w))
        /\ (AtRest(w) /\ nextId <= MaxMsgs)
           => \A u \in Users : ENABLED SaveNewInactive(w, u)

\* a message has been saved with active = false and its row is not locked,
\* while an activating save for the same user holds its lock on another row
C20_Witness ==
    \E w, v \in Workers :
        /\ w # v
        /\ pc[w] = "saved"
        /\ ~handle[w].active
        /\ db[handle[w].id] = RowOf(handle[w])
        /\ pc[v] \in {"locked", "persisted"}
        /\ handle[v].user = handle[w].user
        /\ deact[v] # {}
        /\ handle[w].id \notin LocksOf(v)

\* ---- creation with the default flag ----

\* active = models.BooleanField(default=True)
DefaultActive == TRUE

\* BroadcastMessage(user=u, message=x): no active value is given
NewMessage(u, x) == [id |-> 0, user |-> u, message |-> x, active |-> DefaultActive]

\* BroadcastMessage.objects.create(user=u, message=x) by worker w
CreateDefault(w) ==
    /\ AtRest(w)
    /\ \E u \in Users, x \in Texts : SaveCall(w, NewMessage(u, x))

\* C21: a message created without an active value is saved through the
\* activating branch with active = true, and when its creation commits it is
\* stored active and is the only active message of its user
C21_DefaultCreateActivates ==
    [][\A w \in Workers :
          /\ CreateDefault(w) => (handle'[w].active /\ pc'[w] = "updating")
          /\ (Commits(w) /\ ~Exists(db, handle[w].id))
             => /\ db'[handle[w].id].active
                /\ ActiveOf(db', handle[w].user) = {handle[w].id}]_vars

\* ---- the gateway: requests on behalf of a caller ----

\* a faulty login check that lets every caller through
AuthenticatedAlways(a) == TRUE

\* login_required
Authenticated(a) == a # Anonymous

\* a faulty lookup by id alone
OwnsAny(a, row) == row # NoRow

\* a faulty lookup that takes a missing row for the caller's own
OwnsOrMissing(a, row) == row = NoRow \/ row.user = a

\* the gateway's lookup of a message: by id and user = the caller
Owns(a, row) == row # NoRow /\ row.user = a

\* the request of worker w ends with response r and nothing stored or held
Respond(w, r) ==
    /\ pc' = [pc EXCEPT ![w] = r]
    /\ handle' = [handle EXCEPT ![w] = NoHandle]
    /\ UNCHANGED <<db, nextId, targets, deact, raced, accountVars>>

\* a delete, update or toggle request of caller a for message id m starts:
\* redirect to login, or redirect home when the caller has no such message,
\* or the message is fetched for the operation
GatewayFetch(w, a, m) ==
    /\ AtRest(w)
    /\ IF ~Authenticated(a) THEN Respond(w, "login")
       ELSE IF ~Owns(a, db[m])
            THEN Respond(w, IF db[m] = NoRow THEN "missing" ELSE "denied")
       ELSE /\ handle' = [handle EXCEPT ![w] =
                    [id |-> m, user |-> db[m].user, message |-> db[m].message,
                     active |-> db[m].active]]
            /\ pc' = [pc EXCEPT ![w] = "ready"]
            /\ UNCHANGED <<db, nextId, targets, deact, raced, accountVars>>

\* an add request of caller a: a message of the caller with the default flag
GatewayAdd(w, a) ==
    /\ AtRest(w)
    /\ IF ~Authenticated(a) THEN Respond(w, "login")
       ELSE \E x \in Texts : SaveCall(w, NewMessage(a, x))

Request(w) ==
    \E a \in Callers : GatewayAdd(w, a) \/ \E m \in Ids : GatewayFetch(w, a, m)

\* save() is called on a new instance that has no owner
SaveNoOwner(w) ==
    /\ AtRest(w)
    /\ \E x \in Texts, a \in BOOLEAN :
          SaveCall(w, [id |-> 0, user |-> NoUser, message |-> x, active |-> a])

NextGateway ==
    \/ Next
    \/ \E w \in Workers : Request(w)
    \/ \E w \in Workers : SaveNoOwner(w)

SpecGateway == Init /\ [][NextGateway]_vars

\* C22: a delete request for a message that does not exist completes with the
\* ordinary redirect and stores nothing: the table and the key sequence are as
\* before and the worker holds no instance
C22_DeleteMissingIsNoOp ==
    [][\A w \in Workers, a \in Users, m \in Ids :
          (~Exists(db, m) /\ GatewayFetch(w, a, m))
          => /\ pc'[w] = "missing"
             /\ handle'[w] = NoHandle
             /\ db' = db
             /\ nextId' = nextId]_vars

\* a request for a message that was deleted has been answered with the
\* redirect while the caller's other message is still stored
C22_Witness ==
    \E w, v \in Workers :
        /\ pc[w] = "missing"
        /\ pc[v] = "deleted"
        /\ ~Exists(db, handle[v].id)
        /\ OwnedBy(db, handle[v].user) # {}

\* C23: a save of a message with no owner is rejected before any transaction
\* begins and leaves the table unchanged, with active = true and with
\* active = false: the call ends at once as failed
C23_NoOwnerRejectedBeforeTxn ==
    [][\A w \in Workers : SaveNoOwner(w) => (pc'[w] = "failed" /\ db' = db)]_vars

\* C23, amended: a save of a message with no owner fails and leaves the table
\* unchanged: with active = false the INSERT is refused at once; with
\* active = true save() first enters its transaction, and the only step that
\* follows is the failure, which rolls back with nothing locked or written
C23_NoOwnerSaveFails ==
    [][\A w \in Workers :
          /\ SaveNoOwner(w)
             => /\ db' = db
                /\ pc'[w] = IF handle'[w].active THEN "updating" ELSE "failed"
                /\ targets'[w] = {}
          /\ (Steps(w) /\ pc[w] = "updating" /\ handle[w].user = NoUser)
             => /\ pc'[w] = "failed"
                /\ db' = db
                /\ deact'[w] = {}]_vars

\* an activating save of a message with no owner has failed while the table
\* holds an active message
C23_Witness ==
    \E w \in Workers :
        /\ pc[w] = "failed"
        /\ handle[w].user = NoUser
        /\ handle[w].active
        /\ \E u \in Users : ActiveOf(db, u) # {}

\* ---- deletion of users ----

\* a faulty deletion that leaves the messages of the user behind
DeleteUserOnly(u) ==
    /\ u \in users
    /\ users' = users \ {u}
    /\ UNCHANGED <<messageVars, details, qr, qpc, qwho, qheld, files>>

\* user u is deleted: on_delete=CASCADE deletes the messages of u with it, once
\* no open transaction holds a lock on one of them
DeleteUser(u) ==
    /\ u \in users
    /\ \A m \in OwnedBy(db, u), w \in Workers : m \notin LocksOf(w)
    /\ users' = users \ {u}
    /\ db' = [m \in Ids |-> IF Exists(db, m) /\ db[m].user = u THEN NoRow ELSE db[m]]
    /\ UNCHANGED <<nextId, pc, handle, targets, deact, raced, details, qr, qpc, qwho, qheld, files>>

NextUsers ==
    \/ Next
    \/ \E u \in Users : DeleteUser(u)

SpecUsers == Init /\ [][NextUsers]_vars

\* C24: after every step each stored message is owned by a user that exists,
\* and the deletion of a user removes exactly the messages of that user and
\* leaves every other message as it was
C24_MessagesHaveExistingOwner ==
    [][/\ \A m \in Ids : Exists(db', m) => db'[m].user \in users'
       /\ \A u \in Users :
             DeleteUser(u)
             => \A m \in Ids :
                   db'[m] = IF Exists(db, m) /\ db[m].user = u THEN NoRow ELSE db[m]]_vars

\* a user was deleted and a message that was saved for that user is gone,
\* while the other user and that user's active message are still stored
C24_Witness ==
    \E w \in Workers, o \in users :
        /\ pc[w] = "saved"
        /\ handle[w].user \notin users
        /\ ~Exists(db, handle[w].id)
        /\ ActiveOf(db, o) # {}

\* ---- toggling ----

\* C25: toggling a fetched message that is stored active stores it inactive
\* and changes no other row; toggling a fetched inactive message saves it
\* through the activating branch, and when that save commits the message is
\* stored active and is the only active message of its user
C25_ToggleFlips ==
    [][\A w \in Workers :
          /\ (Toggle(w) /\ handle[w].active /\ db[handle[w].id] = RowOf(handle[w]))
             => /\ pc'[w] = "saved"
                /\ db' = [db EXCEPT ![handle[w].id].active = FALSE]
          /\ (Toggle(w) /\ ~handle[w].active)
             => (handle'[w].active /\ pc'[w] = "updating")
          /\ (Commits(w) /\ Exists(db, handle[w].id) /\ ~db[handle[w].id].active)
             => /\ db'[handle[w].id].active
                /\ \A m \in OwnedBy(db', handle[w].user) \ {handle[w].id} :
                      ~db'[m].active]_vars

\* C26: a delete, update or toggle request of a user for a message owned by
\* another user ends without fetching it: every stored message keeps its
\* owner, text and flag, so the owner's active message is the same
C26_ForeignRequestChangesNothing ==
    [][\A w \in Workers, a \in Users, m \in Ids :
          (Exists(db, m) /\ db[m].user # a /\ GatewayFetch(w, a, m))
          => /\ pc'[w] = "denied"
             /\ handle'[w] = NoHandle
             /\ db' = db
             /\ nextId' = nextId
             /\ \A u \in Users : ActiveOf(db', u) = ActiveOf(db, u)]_vars

\* a request was refused while another user has an active message and the
\* refused worker's caller could only have been someone else
C26_Witness ==
    \E w \in Workers, u \in Users :
        /\ pc[w] = "denied"
        /\ handle[w] = NoHandle
        /\ ActiveOf(db, u) # {}
        /\ \A m \in Ids : Exists(db, m) => db[m].user = u

\* C27: an add, update, delete or toggle request of an unauthenticated caller
\* is answered with the redirect to login, and no message is created, changed
\* or removed
C27_AnonymousRequestChangesNothing ==
    [][\A w \in Workers :
          (GatewayAdd(w, Anonymous) \/ \E m \in Ids : GatewayFetch(w, Anonymous, m))
          => /\ pc'[w] = "login"
             /\ handle'[w] = NoHandle
             /\ db' = db
             /\ nextId' = nextId]_vars

\* an unauthenticated request was redirected while messages are stored, one of
\* them active
C27_Witness ==
    \E w \in Workers, m, n \in Ids :
        /\ pc[w] = "login"
        /\ m # n
        /\ Exists(db, m) /\ db[m].active
        /\ Exists(db, n)

\* ---- QR codes: generate_qr_code_with_logo ----

\* @login_required(login_url='login')
LoggedIn(a) == a # Anonymous

\* a faulty lookup that finds a profile for everybody
HasDetailsAlways(a) == TRUE

\* get_object_or_404(UserDetails, user=request.user) finds a record
HasDetails(a) == a \in details

\* a faulty check that never finds a record
HasQRNever(q, u) == FALSE

\* QRCode.objects.filter(user=u).exists()
HasQR(q, u) == q[u] # <<>>

\* a table that takes a second record of the same user
UniqueFreeAlways(q, u) == TRUE

\* the one-to-one relation of QRCode to its user: an INSERT for u is accepted
\* only when u has no record
UniqueFree(q, u) == q[u] = <<>>

\* no QR-code request is being served by worker w
QAtRest(w) ==
    qpc[w] \in {"idle", "login", "notfound", "already", "generated", "error",
               "norecord", "nofile", "served"}

\* a request of caller a arrives at worker w: the login check and the lookup
\* of the caller's UserDetails
GenerateStart(w, a) ==
    /\ QAtRest(w)
    /\ qwho' = [qwho EXCEPT ![w] = a]
    /\ qheld' = [qheld EXCEPT ![w] = 0]
    /\ qpc' = [qpc EXCEPT ![w] =
                 IF ~LoggedIn(a) THEN "login"
                 ELSE IF ~HasDetails(a) THEN "notfound"
                 ELSE "found"]
    /\ UNCHANGED <<messageVars, files, users, details, qr>>

\* the check for an existing QR code: redirect home with the notice, or go on
\* to build the image
ExistsCheck(w) ==
    /\ qpc[w] = "found"
    /\ qpc' = [qpc EXCEPT ![w] = IF HasQR(qr, qwho[w]) THEN "already" ELSE "checked"]
    /\ UNCHANGED <<messageVars, files, users, details, qr, qwho, qheld>>

\* get_or_create, its SELECT: the record of the caller is found, or it is not
\* and an INSERT follows, or there is more than one and get() raises
GetOrCreateGet(w) ==
    /\ qpc[w] = "checked"
    /\ LET n == Len(qr[qwho[w]]) IN
          /\ qpc' = [qpc EXCEPT ![w] = IF n = 0 THEN "inserting"
                                       ELSE IF n = 1 THEN "created" ELSE "error"]
          /\ qheld' = [qheld EXCEPT ![w] = IF n = 1 THEN 1 ELSE 0]
    /\ UNCHANGED <<messageVars, files, users, details, qr, qwho>>

\* get_or_create, its INSERT: a record with an empty image is stored, or the
\* INSERT is refused because a record was stored meanwhile and that one is read
GetOrCreateInsert(w) ==
    /\ qpc[w] = "inserting"
    /\ LET u == qwho[w] IN
          IF UniqueFree(qr, u)
          THEN /\ qr' = [qr EXCEPT ![u] = Append(qr[u], [image |-> 0])]
               /\ qheld' = [qheld EXCEPT ![w] = Len(qr[u]) + 1]
          ELSE /\ qr' = qr
               /\ qheld' = [qheld EXCEPT ![w] = 1]
    /\ qpc' = [qpc EXCEPT ![w] = "created"]
    /\ UNCHANGED <<messageVars, files, users, details, qwho>>

\* qr_code.image.save(name, file): the file is written and the record is
\* saved with it
ImageSave(w) ==
    /\ qpc[w] = "created"
    /\ files' = [files EXCEPT ![qwho[w]] = @ \cup {w}]
    /\ qr' = [qr EXCEPT ![qwho[w]][qheld[w]].image = w]
    /\ qpc' = [qpc EXCEPT ![w] = "imaged"]
    /\ UNCHANGED <<messageVars, users, details, qwho, qheld>>

\* a faulty save that stores the record as it was created, without its image
SaveRecordEmpty(w) ==
    /\ qpc[w] = "imaged"
    /\ qr' = [qr EXCEPT ![qwho[w]][qheld[w]].image = 0]
    /\ qpc' = [qpc EXCEPT ![w] = "generated"]
    /\ UNCHANGED <<messageVars, files, users, details, qwho, qheld>>

\* qr_code.save() and the redirect home with the success notice
SaveRecord(w) ==
    /\ qpc[w] = "imaged"
    /\ qr' = [qr EXCEPT ![qwho[w]][qheld[w]].image = w]
    /\ qpc' = [qpc EXCEPT ![w] = "generated"]
    /\ UNCHANGED <<messageVars, files, users, details, qwho, qheld>>

\* QRCode.objects.create(user=u): a record with an empty image, refused when
\* u has one
CreateQR(u) ==
    /\ UniqueFree(qr, u)
    /\ qr' = [qr EXCEPT ![u] = Append(qr[u], [image |-> 0])]
    /\ UNCHANGED <<messageVars, files, users, details, qpc, qwho, qheld>>

\* user_details.delete()
DeleteDetails(u) ==
    /\ u \in details
    /\ details' = details \ {u}
    /\ UNCHANGED <<messageVars, files, users, qr, qpc, qwho, qheld>>

\* ---- QR codes: download_qr_code ----

\* qr_code.image.path is defined: the image field names a file
HasImage(r) == r.image # 0

\* os.path.exists(qr_code_path)
FileExists(u, r) == r.image \in files[u]

\* a download request of caller a at worker w: the login check, the lookup of
\* the caller's QRCode (404 when there is none: "norecord"), the path of its
\* image (an exception when the field is empty: "error"), the check that the
\* file exists (404 when it does not: "nofile") and the file response
Download(w, a) ==
    /\ QAtRest(w)
    /\ qwho' = [qwho EXCEPT ![w] = a]
    /\ qheld' = [qheld EXCEPT ![w] = 0]
    /\ qpc' = [qpc EXCEPT ![w] =
                 IF ~LoggedIn(a) THEN "login"
                 ELSE IF qr[a] = <<>> THEN "norecord"
                 ELSE IF Len(qr[a]) > 1 THEN "error"
                 ELSE IF ~HasImage(qr[a][1]) THEN "error"
                 ELSE IF ~FileExists(a, qr[a][1]) THEN "nofile"
                 ELSE "served"]
    /\ UNCHANGED <<messageVars, files, users, details, qr>>

\* an image file of user u is no longer in the media directory
RemoveFile(u) ==
    /\ \E k \in files[u] : files' = [files EXCEPT ![u] = @ \ {k}]
    /\ UNCHANGED <<messageVars, users, details, qr, qpc, qwho, qheld>>

NextQR ==
    \/ \E w \in Workers, a \in Callers : GenerateStart(w, a)
    \/ \E w \in Workers : ExistsCheck(w)
    \/ \E w \in Workers : GetOrCreateGet(w)
    \/ \E w \in Workers : GetOrCreateInsert(w)
    \/ \E w \in Workers : ImageSave(w)
    \/ \E w \in Workers : SaveRecord(w)
    \/ \E u \in Users : CreateQR(u)
    \/ \E u \in Users : DeleteDetails(u)
    \/ \E w \in Workers, a \in Callers : Download(w, a)
    \/ \E u \in Users : RemoveFile(u)

SpecQR == Init /\ [][NextQR]_vars

\* C28: a user never has more than one QRCode record, however generate
\* requests are interleaved
C28_AtMostOneQRCode == \A u \in Users : Len(qr[u]) <= 1

\* two requests of the same user both passed the check for an existing record
\* and both ended with the success notice
C28_Witness ==
    \E w, v \in Workers :
        /\ w # v
        /\ qwho[w] = qwho[v]
        /\ qpc[w] = "generated"
        /\ qpc[v] = "generated"
        /\ Len(qr[qwho[w]]) = 1

C30_NoDetailsIs404 ==
    [][\A w \in Workers, a \in Users :
          (GenerateStart(w, a) /\ a \notin details)
          => /\ qpc'[w] = "notfound"
             /\ qheld'[w] = 0
             /\ qr' = qr]_vars

\* requests of users without a profile were answered with 404, one of a user
\* with a QRCode record and one of a user without
C30_Witness ==
    \E w, v \in Workers :
        /\ qpc[w] = "notfound" /\ qwho[w] \notin details /\ qr[qwho[w]] # <<>>
        /\ qpc[v] = "notfound" /\ qwho[v] \notin details /\ qr[qwho[v]] = <<>>

\* C31: when a generate request ends with the success notice the caller has
\* one QRCode record and its image is set; a download request of a user who
\* has no QRCode record is answered with 404 and changes no record, file or
\* profile
C31_GenerateStoresImage ==
    [][\A w \in Workers :
          /\ SaveRecord(w)
             => /\ qpc'[w] = "generated"
                /\ Len(qr'[qwho[w]]) = 1
                /\ HasImage(qr'[qwho[w]][1])
          /\ \A a \in Users :
                (Download(w, a) /\ qr[a] = <<>>)
                => /\ qpc'[w] = "norecord"
                   /\ qr' = qr
                   /\ files' = files
                   /\ details' = details]_vars

\* a generate request ended with the success notice and the record has the
\* image it saved, while a download request of a user who has a profile and
\* no record was answered with 404
C31_Witness ==
    \E w, v \in Workers :
        /\ qpc[w] = "generated"
        /\ Len(qr[qwho[w]]) = 1 /\ qr[qwho[w]][1].image = w
        /\ qpc[v] = "norecord"
        /\ qwho[v] \in details
        /\ qr[qwho[v]] = <<>>

\* ---- saves through a fetched instance that is out of date ----

\* C32: a text edit leaves the active flags as they are stored: an update of a
\* message that is stored inactive is not saved as active, and an update saved
\* through the inactive branch changes the flag of no stored message
C32_TextEditKeepsFlags ==
    [][\A w \in Workers :
          (Update(w) /\ Exists(db, handle[w].id))
          => /\ ~db[handle[w].id].active => ~handle'[w].active
             /\ ~handle'[w].active
                => \A m \in Ids :
                      Exists(db, m) => (Exists(db', m) /\ db'[m].active = db[m].active)]_vars

\* C33: while the worker that deleted a message rests on its finished delete,
\* the message is not stored again, and no step of a worker holding an
\* instance of that message changes which messages of its user are active
C33_DeletedStaysDeleted ==
    [][\A v \in Workers :
          (pc[v] = "deleted" /\ pc'[v] = "deleted" /\ handle'[v] = handle[v])
          => /\ ~Exists(db', handle[v].id)
             /\ \A w \in Workers :
                   (Steps(w) /\ handle[w].id = handle[v].id)
                   => ActiveOf(db', handle[v].user) = ActiveOf(db, handle[v].user)]_vars

\* ---- the frame of an activating save ----

\* C34: a step of an activating save changes no row but the one saved, except
\* that it may set active to false on stored messages of the saving user: it
\* stores and removes no other message and changes no other text or owner
C34_ActivatingSaveFrame ==
    [][\A w \in Workers :
          (Steps(w) /\ InTxn(w))
          => \A m \in Ids \ {handle'[w].id} :
                \/ db'[m] = db[m]
                \/ /\ Exists(db, m)
                   /\ db[m].user = handle[w].user
                   /\ db'[m] = [db[m] EXCEPT !.active = FALSE]]_vars

\* an activating save has committed and its message is stored active, while
\* the message another worker had saved active, of the same user, is now
\* stored inactive with its text
C34_Witness ==
    \E w, v \in Workers :
        /\ pc[w] = "saved" /\ handle[w].active
        /\ db[handle[w].id] = RowOf(handle[w])
        /\ pc[v] = "saved" /\ handle[v].active
        /\ handle[v].id # handle[w].id
        /\ handle[v].user = handle[w].user
        /\ handle[v].message # handle[w].message
        /\ db[handle[v].id] = [RowOf(handle[v]) EXCEPT !.active = FALSE]

\* ---- QR codes: the image of a record ----

\* C35: once the QRCode record of a user has an image, no step replaces it
C35_ImageNeverReplaced ==
    [][\A u \in Users :
          (qr[u] # <<>> /\ HasImage(qr[u][1]))
          => (qr'[u] # <<>> /\ qr'[u][1].image = qr[u][1].image)]_vars

\* C36: a download request of an authenticated user ends with the file served
\* or with 404, and with 404 when the user's record has no image
C36_DownloadServesOr404 ==
    [][\A w \in Workers, a \in Users :
          Download(w, a)
          => /\ qpc'[w] \in {"served", "norecord", "nofile"}
             /\ (qr[a] # <<>> /\ ~HasImage(qr[a][1]))
                => qpc'[w] \in {"norecord", "nofile"}]_vars

====
